---- MODULE Spec2Model ----
(***************************************************************************)
(* Hand-over-hand locking over a sentinel-headed singly linked list        *)
(* (hoh.cpp): verbose_mutex, node, list_add and lookup, driven by threads  *)
(* that call lookup with their unique_lock handles and later let the       *)
(* handles go out of scope.                                                *)
(* The dynamic map of serial numbers (dynmap.cpp): serial_no and           *)
(* dynamic_map::lookup, driven by a client that keeps, copies and drops    *)
(* the shared_ptr references lookup returns.                               *)
(***************************************************************************)
EXTENDS Integers, Sequences, FiniteSets, TLC

\* ---------------------------------------------------------------- bounds
MaxLen == 3          \* populate_list reads at most the first MaxLen words
MaxAlloc == 4        \* serial_no objects allocated in one run of the map
MaxRefs == 3         \* shared_ptr variables the map's client has

\* two threads run main's calling pattern concurrently
Threads == {"A", "B"}

\* each caller has main's two handles, node_lock1 and node_lock2
NumHandles == 2
Handles == 1..NumHandles
Indices == 0..(MaxLen + 1)   \* arguments n of lookup: 0, valid ones, past the end

\* ------------------------------------------------------- program constants
NULL == -1           \* nullptr, also a lock object that owns no mutex
list == 0            \* the static sentinel pointer: the first node allocated
EmptyElt == ""       \* the sentinel's payload

\* populate_list: the words of contents, in order
Words == <<"The", "quick", "brown", "fox", "jumped", "over", "the", "lazy", "dog">>

\* dynmap.cpp, main: the strings looked up
Strings == {"P", "Q", "R"}

\* the client's shared_ptr<serial_no> variables (p1, q1, p2, q2, r2 in main)
Slots == 1..MaxRefs

ErrEmpty    == "lookup: list is empty"
ErrInvalid  == "lookup: invalid argument"
ErrShort    == "lookup: list too short"
ErrDeadlock == "resource_deadlock_would_occur"

VARIABLES
  phase,        \* "build": main is populating the list; "run": lookups may run
  number,       \* verbose_mutex::number, the next serial number
  heap,         \* node serial -> [element, next]
  rw,           \* node serial -> state of its shared_mutex [w, r]
  hand,         \* thread -> handle -> serial of the mutex the handle owns, or NULL
  pc,           \* thread -> position in lookup, or "idle"
  n,            \* thread -> lookup's parameter n (decremented by the loop)
  hnd,          \* thread -> the handle passed as lookup's parameter lock
  read_lock,    \* thread -> mutex owned by lookup's read_lock
  next_lock,    \* thread -> mutex owned by lookup's next_lock
  result_lock,  \* thread -> mutex owned by lookup's result_lock
  result,       \* thread -> lookup's local result
  exc,          \* thread -> the exception in flight or delivered, or "none"
  outcome,      \* thread -> "none", "ok" (lookup returned), "error" (it threw),
                \*           "released" (a handle went out of scope)
  ret,          \* thread -> the node lookup returned, or whose lock was released
  n0,           \* thread -> the n the current or last call was made with
  hand0,        \* thread -> the thread's handles as they were at the call
  serial_no_number,  \* serial_no::number, an unsigned int kept as its 32-bit
                     \* pattern read in two's complement (4294967295 is -1)
  objects,      \* serial_no object -> [this_num, use_count]; an object whose
                \* use_count is 0 has been destroyed, its control block stays
  map,          \* dynamic_map::map: string -> weak_ptr (an object, or NULL)
  refs,         \* client variable -> [obj, from]: the object it refers to
                \* (or NULL) and the string of the lookup it came from
  last          \* the client's last operation and what held when it began

vars == <<phase, number, heap, rw, hand, pc, n, hnd, read_lock, next_lock,
          result_lock, result, exc, outcome, ret, n0, hand0,
          serial_no_number, objects, map, refs, last>>

hohVars == <<phase, number, heap, rw, hand, pc, n, hnd, read_lock, next_lock,
             result_lock, result, exc, outcome, ret, n0, hand0>>
dynVars == <<serial_no_number, objects, map, refs, last>>

listVars   == <<phase, number, heap>>
localLocks == <<read_lock, next_lock, result_lock>>

NodeIds == 0..(number - 1)

\* ------------------------------------------------------------ shared_mutex
\* faulty variant: an exclusive acquisition that does not wait for the readers
CanLockIgnoringReaders(m) == ~rw[m].w

\* faulty variant: an exclusive acquisition that does not wait for another
\* exclusive holder
CanLockIgnoringWriter(m) == rw[m].r = 0

\* std::shared_mutex::lock returns once there is no holder at all
CanLock(m) == ~rw[m].w /\ rw[m].r = 0

\* faulty variant: lock_shared does not wait for an exclusive holder
CanLockSharedIgnoringWriter(m) == TRUE

\* faulty variant: the walk's shared acquisition waits like an exclusive one
CanLockSharedAsExclusive(m) == ~rw[m].w /\ rw[m].r = 0

\* std::shared_mutex::lock_shared returns once there is no exclusive holder
CanLockShared(m) == ~rw[m].w

\* verbose_mutex::lock
Lock(m) == [rw EXCEPT ![m].w = TRUE]

\* faulty variant: unlock leaves the mutex exclusively locked
UnlockForgotten(locks, m) == locks

\* verbose_mutex::unlock
Unlock(locks, m) == [locks EXCEPT ![m].w = FALSE]

\* verbose_mutex::lock_shared
LockShared(m) == [rw EXCEPT ![m].r = @ + 1]

\* faulty variant: unlock_shared leaves the reader registered
UnlockSharedForgotten(locks, m) == locks

\* verbose_mutex::unlock_shared
UnlockShared(locks, m) == [locks EXCEPT ![m].r = @ - 1]

\* the destructor of a shared_lock / unique_lock: releases what it owns
DropShared(locks, m) == IF m = NULL THEN locks ELSE UnlockShared(locks, m)
DropUnique(locks, m) == IF m = NULL THEN locks ELSE Unlock(locks, m)

\* the mutexes thread t owns through any lock object
Owned(t) == ({hand[t][h] : h \in Handles}
             \cup {read_lock[t], next_lock[t], result_lock[t]}) \ {NULL}

\* ------------------------------------------------------------------- list
\* list_add's walk: the last node reachable from p
RECURSIVE LastFrom(_)
LastFrom(p) == IF heap[p].next = NULL THEN p ELSE LastFrom(heap[p].next)

\* faulty variant: the new node is linked right after the sentinel
list_add_front(s) ==
  /\ LET new_node == number
     IN /\ heap' = [i \in NodeIds \cup {new_node} |->
                      IF i = new_node THEN [element |-> s, next |-> heap[list].next]
                      ELSE IF i = list
                           THEN [heap[i] EXCEPT !.next = new_node]
                           ELSE heap[i]]
        /\ rw' = [i \in NodeIds \cup {new_node} |->
                      IF i = new_node THEN [w |-> FALSE, r |-> 0] ELSE rw[i]]
        /\ number' = number + 1

\* list_add, with node::node and the verbose_mutex constructor
list_add(s) ==
  /\ LET new_node == number
         insert_point == LastFrom(list)
     IN /\ heap' = [i \in NodeIds \cup {new_node} |->
                      IF i = new_node THEN [element |-> s, next |-> NULL]
                      ELSE IF i = insert_point
                           THEN [heap[i] EXCEPT !.next = new_node]
                           ELSE heap[i]]
        /\ rw' = [i \in NodeIds \cup {new_node} |->
                      IF i = new_node THEN [w |-> FALSE, r |-> 0] ELSE rw[i]]
        /\ number' = number + 1

\* populate_list: one iteration of while (ss >> s) list_add(s)
populate_list ==
  /\ phase = "build"
  /\ number <= MaxLen
  /\ number <= Len(Words)
  /\ list_add(Words[number])
  /\ UNCHANGED <<phase, hand, pc, n, hnd, read_lock, next_lock, result_lock,
                 result, exc, outcome, ret, n0, hand0, dynVars>>

\* main: the list is populated, lookups start
populated ==
  /\ phase = "build"
  /\ phase' = "run"
  /\ UNCHANGED <<number, heap, rw, hand, pc, n, hnd, read_lock, next_lock,
                 result_lock, result, exc, outcome, ret, n0, hand0, dynVars>>

\* ----------------------------------------------------------------- lookup
\* a caller invokes lookup(k, handle h)
Call(t, k, h) ==
  /\ phase = "run"
  /\ pc[t] = "idle"
  /\ pc' = [pc EXCEPT ![t] = "l140"]
  /\ n' = [n EXCEPT ![t] = k]
  /\ n0' = [n0 EXCEPT ![t] = k]
  /\ hnd' = [hnd EXCEPT ![t] = h]
  /\ hand0' = [hand0 EXCEPT ![t] = hand[t]]
  /\ outcome' = [outcome EXCEPT ![t] = "none"]
  /\ exc' = [exc EXCEPT ![t] = "none"]
  /\ ret' = [ret EXCEPT ![t] = NULL]
  /\ result' = [result EXCEPT ![t] = NULL]
  /\ UNCHANGED <<dynVars, listVars, rw, hand, localLocks>>

\* faulty variant: the loop tests n before decrementing it, while (n--)
LoopTestPostDecrement(k) == IF k + 1 # 0 THEN "l174" ELSE "l204"

\* the loop test while (--n): where control goes with n already decremented
LoopTest(k) == IF k # 0 THEN "l174" ELSE "l204"

\* faulty variant: the unwinding destroys next_lock but leaks read_lock's mutex
ThrowLeakingReadLock(t, e) ==
  /\ exc' = [exc EXCEPT ![t] = e]
  /\ rw' = DropShared(rw, next_lock[t])
  /\ next_lock' = [next_lock EXCEPT ![t] = NULL]
  /\ read_lock' = [read_lock EXCEPT ![t] = NULL]
  /\ result' = [result EXCEPT ![t] = NULL]
  /\ n' = [n EXCEPT ![t] = 0]
  /\ outcome' = [outcome EXCEPT ![t] = "error"]
  /\ pc' = [pc EXCEPT ![t] = "idle"]

\* throw std::runtime_error(e) inside lookup: the stack unwinds, next_lock
\* and then read_lock are destroyed, and the caller sees the exception
Throw(t, e) ==
  /\ exc' = [exc EXCEPT ![t] = e]
  /\ rw' = DropShared(DropShared(rw, next_lock[t]), read_lock[t])
  /\ next_lock' = [next_lock EXCEPT ![t] = NULL]
  /\ read_lock' = [read_lock EXCEPT ![t] = NULL]
  /\ result' = [result EXCEPT ![t] = NULL]
  /\ n' = [n EXCEPT ![t] = 0]
  /\ outcome' = [outcome EXCEPT ![t] = "error"]
  /\ pc' = [pc EXCEPT ![t] = "idle"]

\* faulty variant: the sentinel's mutex is not acquired before list->next is read
LockSentinelSkipped(t) ==
  /\ pc[t] = "l140"
  /\ pc' = [pc EXCEPT ![t] = "l141"]
  /\ UNCHANGED <<dynVars, listVars, rw, hand, n, hnd, localLocks, result, exc,
                 outcome, ret, n0, hand0>>

\* line 140: std::shared_lock read_lock(list->mutex)
LockSentinel(t) ==
  /\ pc[t] = "l140"
  /\ CanLockShared(list)
  /\ rw' = LockShared(list)
  /\ read_lock' = [read_lock EXCEPT ![t] = list]
  /\ pc' = [pc EXCEPT ![t] = "l141"]
  /\ UNCHANGED <<dynVars, listVars, hand, n, hnd, next_lock, result_lock, result, exc,
                 outcome, ret, n0, hand0>>

\* faulty variant: the check of n against zero is missing
InitResultNoZeroCheck(t) ==
  /\ pc[t] = "l141"
  /\ LET r == heap[list].next
     IN IF r = NULL
        THEN Throw(t, ErrEmpty)
        ELSE IF hand[t][hnd[t]] # NULL
        THEN Throw(t, ErrInvalid)
        ELSE /\ result' = [result EXCEPT ![t] = r]
             /\ n' = [n EXCEPT ![t] = n[t] - 1]
             /\ pc' = [pc EXCEPT ![t] = LoopTest(n[t] - 1)]
             /\ UNCHANGED <<rw, read_lock, next_lock, exc, outcome>>
  /\ UNCHANGED <<dynVars, listVars, hand, hnd, result_lock, ret, n0, hand0>>

\* faulty variant: the check of lock.owns_lock() is missing
InitResultNoOwnsCheck(t) ==
  /\ pc[t] = "l141"
  /\ LET r == heap[list].next
     IN IF r = NULL
        THEN Throw(t, ErrEmpty)
        ELSE IF n[t] = 0
        THEN Throw(t, ErrInvalid)
        ELSE /\ result' = [result EXCEPT ![t] = r]
             /\ n' = [n EXCEPT ![t] = n[t] - 1]
             /\ pc' = [pc EXCEPT ![t] = LoopTest(n[t] - 1)]
             /\ UNCHANGED <<rw, read_lock, next_lock, exc, outcome>>
  /\ UNCHANGED <<dynVars, listVars, hand, hnd, result_lock, ret, n0, hand0>>

\* faulty variant: the argument check is made before the emptiness check
InitResultChecksSwapped(t) ==
  /\ pc[t] = "l141"
  /\ LET r == heap[list].next
     IN IF n[t] = 0 \/ hand[t][hnd[t]] # NULL
        THEN Throw(t, ErrInvalid)
        ELSE IF r = NULL
        THEN Throw(t, ErrEmpty)
        ELSE /\ result' = [result EXCEPT ![t] = r]
             /\ n' = [n EXCEPT ![t] = n[t] - 1]
             /\ pc' = [pc EXCEPT ![t] = LoopTest(n[t] - 1)]
             /\ UNCHANGED <<rw, read_lock, next_lock, exc, outcome>>
  /\ UNCHANGED <<dynVars, listVars, hand, hnd, result_lock, ret, n0, hand0>>

\* faulty variant: the walk starts at the sentinel itself, result = list
InitResultFromSentinel(t) ==
  /\ pc[t] = "l141"
  /\ LET r == list
     IN IF heap[list].next = NULL
        THEN Throw(t, ErrEmpty)
        ELSE IF n[t] = 0 \/ hand[t][hnd[t]] # NULL
        THEN Throw(t, ErrInvalid)
        ELSE /\ result' = [result EXCEPT ![t] = r]
             /\ n' = [n EXCEPT ![t] = n[t] - 1]
             /\ pc' = [pc EXCEPT ![t] = LoopTest(n[t] - 1)]
             /\ UNCHANGED <<rw, read_lock, next_lock, exc, outcome>>
  /\ UNCHANGED <<dynVars, listVars, hand, hnd, result_lock, ret, n0, hand0>>

\* lines 141-171: result = list->next, the two requirement checks, first --n
\* (n is unsigned, and at least 1 wherever it is decremented: no wrap-around)
InitResult(t) ==
  /\ pc[t] = "l141"
  /\ LET r == heap[list].next
     IN IF r = NULL
        THEN Throw(t, ErrEmpty)
        ELSE IF n[t] = 0 \/ hand[t][hnd[t]] # NULL
        THEN Throw(t, ErrInvalid)
        ELSE /\ result' = [result EXCEPT ![t] = r]
             /\ n' = [n EXCEPT ![t] = n[t] - 1]
             /\ pc' = [pc EXCEPT ![t] = LoopTest(n[t] - 1)]
             /\ UNCHANGED <<rw, read_lock, next_lock, exc, outcome>>
  /\ UNCHANGED <<dynVars, listVars, hand, hnd, result_lock, ret, n0, hand0>>

\* faulty variant: the predecessor's lock is dropped as the next one is taken
LockNextReleaseFirst(t) ==
  /\ pc[t] = "l174"
  /\ result[t] \notin Owned(t)
  /\ CanLockShared(result[t])
  /\ rw' = DropShared(LockShared(result[t]), read_lock[t])
  /\ read_lock' = [read_lock EXCEPT ![t] = result[t]]
  /\ next_lock' = [next_lock EXCEPT ![t] = NULL]
  /\ pc' = [pc EXCEPT ![t] = "l189"]
  /\ UNCHANGED <<dynVars, listVars, hand, n, hnd, result_lock, result, exc, outcome,
                 ret, n0, hand0>>

\* lines 174-180: std::shared_lock next_lock(result->mutex); read_lock.swap(next_lock)
LockNext(t) ==
  /\ pc[t] = "l174"
  /\ result[t] \notin Owned(t)
  /\ CanLockShared(result[t])
  /\ rw' = LockShared(result[t])
  /\ read_lock' = [read_lock EXCEPT ![t] = result[t]]
  /\ next_lock' = [next_lock EXCEPT ![t] = read_lock[t]]
  /\ pc' = [pc EXCEPT ![t] = "l189"]
  /\ UNCHANGED <<dynVars, listVars, hand, n, hnd, result_lock, result, exc, outcome,
                 ret, n0, hand0>>

\* lines 189-192: result = result->next; throw when the list has ended
Advance(t) ==
  /\ pc[t] = "l189"
  /\ LET r == heap[result[t]].next
     IN IF r = NULL
        THEN Throw(t, ErrShort)
        ELSE /\ result' = [result EXCEPT ![t] = r]
             /\ pc' = [pc EXCEPT ![t] = "l197"]
             /\ UNCHANGED <<rw, read_lock, next_lock, n, exc, outcome>>
  /\ UNCHANGED <<dynVars, listVars, hand, hnd, result_lock, ret, n0, hand0>>

\* faulty variant: next_lock is not released at the end of the iteration
EndIterationKeepsLock(t) ==
  /\ pc[t] = "l197"
  /\ n' = [n EXCEPT ![t] = n[t] - 1]
  /\ pc' = [pc EXCEPT ![t] = LoopTest(n[t] - 1)]
  /\ UNCHANGED <<dynVars, listVars, rw, hand, hnd, localLocks, result, exc,
                 outcome, ret, n0, hand0>>

\* line 197 and 171: next_lock goes out of scope, then the loop test --n
EndIteration(t) ==
  /\ pc[t] = "l197"
  /\ rw' = DropShared(rw, next_lock[t])
  /\ next_lock' = [next_lock EXCEPT ![t] = NULL]
  /\ n' = [n EXCEPT ![t] = n[t] - 1]
  /\ pc' = [pc EXCEPT ![t] = LoopTest(n[t] - 1)]
  /\ UNCHANGED <<dynVars, listVars, hand, hnd, read_lock, result_lock, result, exc,
                 outcome, ret, n0, hand0>>

\* line 204: std::unique_lock result_lock(result->mutex)
LockResult(t) ==
  /\ pc[t] = "l204"
  /\ result[t] \notin Owned(t)
  /\ CanLock(result[t])
  /\ rw' = Lock(result[t])
  /\ result_lock' = [result_lock EXCEPT ![t] = result[t]]
  /\ pc' = [pc EXCEPT ![t] = "l208"]
  /\ UNCHANGED <<dynVars, listVars, hand, n, hnd, read_lock, next_lock, result, exc,
                 outcome, ret, n0, hand0>>

\* lines 174 and 204 when the calling thread already owns result->mutex:
\* undefined behaviour of std::shared_mutex. The thread either blocks for
\* ever (no step) or, as with glibc's EDEADLK, std::system_error is thrown.
LockOwned(t) ==
  /\ pc[t] \in {"l174", "l204"}
  /\ result[t] \in Owned(t)
  /\ Throw(t, ErrDeadlock)
  /\ UNCHANGED <<dynVars, listVars, hand, hnd, result_lock, ret, n0, hand0>>

\* faulty variant: read_lock gives up its mutex without unlocking it
ReturnLeakingReadLock(t) ==
  /\ pc[t] = "l208"
  /\ hand' = [hand EXCEPT ![t][hnd[t]] = result_lock[t]]
  /\ rw' = DropUnique(rw, hand[t][hnd[t]])
  /\ result_lock' = [result_lock EXCEPT ![t] = NULL]
  /\ read_lock' = [read_lock EXCEPT ![t] = NULL]
  /\ ret' = [ret EXCEPT ![t] = result[t]]
  /\ result' = [result EXCEPT ![t] = NULL]
  /\ n' = [n EXCEPT ![t] = 0]
  /\ outcome' = [outcome EXCEPT ![t] = "ok"]
  /\ pc' = [pc EXCEPT ![t] = "idle"]
  /\ UNCHANGED <<dynVars, listVars, hnd, next_lock, exc, n0, hand0>>

\* lines 208-215: lock.swap(result_lock); return result; result_lock and
\* read_lock go out of scope
Return(t) ==
  /\ pc[t] = "l208"
  /\ hand' = [hand EXCEPT ![t][hnd[t]] = result_lock[t]]
  /\ rw' = DropShared(DropUnique(rw, hand[t][hnd[t]]), read_lock[t])
  /\ result_lock' = [result_lock EXCEPT ![t] = NULL]
  /\ read_lock' = [read_lock EXCEPT ![t] = NULL]
  /\ ret' = [ret EXCEPT ![t] = result[t]]
  /\ result' = [result EXCEPT ![t] = NULL]
  /\ n' = [n EXCEPT ![t] = 0]
  /\ outcome' = [outcome EXCEPT ![t] = "ok"]
  /\ pc' = [pc EXCEPT ![t] = "idle"]
  /\ UNCHANGED <<dynVars, listVars, hnd, next_lock, exc, n0, hand0>>

\* faulty variant: the handle gives up its mutex without unlocking it
ReleaseWithoutUnlock(t, h) ==
  /\ pc[t] = "idle"
  /\ hand[t][h] # NULL
  /\ hand' = [hand EXCEPT ![t][h] = NULL]
  /\ outcome' = [outcome EXCEPT ![t] = "released"]
  /\ exc' = [exc EXCEPT ![t] = "none"]
  /\ ret' = [ret EXCEPT ![t] = hand[t][h]]
  /\ result' = [result EXCEPT ![t] = NULL]
  /\ n' = [n EXCEPT ![t] = 0]
  /\ n0' = [n0 EXCEPT ![t] = 0]
  /\ hnd' = [hnd EXCEPT ![t] = 1]
  /\ hand0' = [hand0 EXCEPT ![t] = [x \in Handles |-> NULL]]
  /\ UNCHANGED <<dynVars, listVars, rw, pc, localLocks>>

\* a handle that owns a mutex goes out of scope in the caller
Release(t, h) ==
  /\ pc[t] = "idle"
  /\ hand[t][h] # NULL
  /\ rw' = Unlock(rw, hand[t][h])
  /\ hand' = [hand EXCEPT ![t][h] = NULL]
  /\ outcome' = [outcome EXCEPT ![t] = "released"]
  /\ exc' = [exc EXCEPT ![t] = "none"]
  /\ ret' = [ret EXCEPT ![t] = hand[t][h]]
  /\ result' = [result EXCEPT ![t] = NULL]
  /\ n' = [n EXCEPT ![t] = 0]
  /\ n0' = [n0 EXCEPT ![t] = 0]
  /\ hnd' = [hnd EXCEPT ![t] = 1]
  /\ hand0' = [hand0 EXCEPT ![t] = [x \in Handles |-> NULL]]
  /\ UNCHANGED <<dynVars, listVars, pc, localLocks>>

\* ------------------------------------------------------------ specification
\* main: list = new node("")
\* hoh.cpp before main's first statement
InitList ==
  /\ phase = "build"
  /\ number = 1
  /\ heap = [i \in {list} |-> [element |-> EmptyElt, next |-> NULL]]
  /\ rw = [i \in {list} |-> [w |-> FALSE, r |-> 0]]
  /\ hand = [t \in Threads |-> [h \in Handles |-> NULL]]
  /\ pc = [t \in Threads |-> "idle"]
  /\ n = [t \in Threads |-> 0]
  /\ hnd = [t \in Threads |-> 1]
  /\ read_lock = [t \in Threads |-> NULL]
  /\ next_lock = [t \in Threads |-> NULL]
  /\ result_lock = [t \in Threads |-> NULL]
  /\ result = [t \in Threads |-> NULL]
  /\ exc = [t \in Threads |-> "none"]
  /\ outcome = [t \in Threads |-> "none"]
  /\ ret = [t \in Threads |-> NULL]
  /\ n0 = [t \in Threads |-> 0]
  /\ hand0 = [t \in Threads |-> [h \in Handles |-> NULL]]

\* a client variable that refers to nothing
NoRef == [obj |-> NULL, from |-> ""]

\* no operation on the map yet
NoOp == [op |-> "none", s |-> "", obj |-> NULL, had |-> {},
         allocated |-> 0, number |-> 0]

\* dynmap.cpp before main's first lookup: serial_no::number = 1, an empty map
InitMap ==
  /\ serial_no_number = 1
  /\ objects = << >>
  /\ map = << >>
  /\ refs = [c \in Slots |-> NoRef]
  /\ last = NoOp

Init == InitList /\ InitMap

Next ==
  \/ populate_list
  \/ populated
  \/ \E t \in Threads, k \in Indices, h \in Handles : Call(t, k, h)
  \/ \E t \in Threads : LockSentinel(t)
  \/ \E t \in Threads : InitResult(t)
  \/ \E t \in Threads : LockNext(t)
  \/ \E t \in Threads : Advance(t)
  \/ \E t \in Threads : EndIteration(t)
  \/ \E t \in Threads : LockResult(t)
  \/ \E t \in Threads : LockOwned(t)
  \/ \E t \in Threads : Return(t)
  \/ \E t \in Threads, h \in Handles : Release(t, h)

Spec == Init /\ [][Next]_vars

\* the steps of t inside lookup, but for the re-locking of an owned mutex
Step(t) ==
  \/ LockSentinel(t)
  \/ InitResult(t)
  \/ LockNext(t)
  \/ Advance(t)
  \/ EndIteration(t)
  \/ LockResult(t)
  \/ Return(t)

\* Fair scheduling: a thread inside lookup keeps running, and a lock
\* acquisition that can succeed again and again eventually does (at each
\* position of lookup exactly one step is possible, so strong fairness of
\* Step is weak fairness of the steps that never wait). Callers are not
\* obliged to call or to release, and a thread that re-locks a mutex it
\* owns may block for ever.
Fairness == \A t \in Threads : SF_vars(Step(t))

\* the callers of the liveness claims: every call is made with a valid index
\* and a handle that owns nothing; a caller may still hold its other handle
CallValid(t, k, h) ==
  /\ k >= 1 /\ k <= number - 1
  /\ hand[t][h] = NULL
  /\ Call(t, k, h)

FairNext ==
  \/ populate_list
  \/ populated
  \/ \E t \in Threads, k \in Indices, h \in Handles : CallValid(t, k, h)
  \/ \E t \in Threads : LockSentinel(t)
  \/ \E t \in Threads : InitResult(t)
  \/ \E t \in Threads : LockNext(t)
  \/ \E t \in Threads : Advance(t)
  \/ \E t \in Threads : EndIteration(t)
  \/ \E t \in Threads : LockResult(t)
  \/ \E t \in Threads : LockOwned(t)
  \/ \E t \in Threads : Return(t)
  \/ \E t \in Threads, h \in Handles : Release(t, h)

FairSpec == Init /\ [][FairNext]_vars /\ Fairness

\* ------------------------------------------------------------- vocabulary
\* the i-th node after p along next (p itself for i = 0), NULL past the end
RECURSIVE Nth(_, _)
Nth(p, i) == IF i = 0 \/ p = NULL THEN p ELSE Nth(heap[p].next, i - 1)

\* the number of nodes after p
RECURSIVE CountFrom(_)
CountFrom(p) == IF heap[p].next = NULL THEN 0 ELSE 1 + CountFrom(heap[p].next)

\* k: the length of the chain, the sentinel not counted
ChainLen == CountFrom(list)

\* the lock objects local to t's lookup call that own a mutex
LocalSlots(t) ==
  {s \in {"read_lock", "next_lock", "result_lock"} :
     CASE s = "read_lock" -> read_lock[t] # NULL
       [] s = "next_lock" -> next_lock[t] # NULL
       [] s = "result_lock" -> result_lock[t] # NULL}

\* the mutexes t's lookup call holds
Held(t) == {read_lock[t], next_lock[t], result_lock[t]} \ {NULL}

\* the mutexes t's lookup call holds in shared mode
HeldShared(t) == {read_lock[t], next_lock[t]} \ {NULL}

\* the lock objects, of all threads, that own mutex m in each mode
SharedOwners(m) ==
  {<<t, "read_lock">> : t \in {u \in Threads : read_lock[u] = m}}
  \cup {<<t, "next_lock">> : t \in {u \in Threads : next_lock[u] = m}}
ExclusiveOwners(m) ==
  {<<t, "result_lock">> : t \in {u \in Threads : result_lock[u] = m}}
  \cup {<<t, h>> \in Threads \X Handles : hand[t][h] = m}

\* every mutex is in exactly the state its owners account for
LockStateExact ==
  \A m \in NodeIds : /\ rw[m].r = Cardinality(SharedOwners(m))
                     /\ rw[m].w = (ExclusiveOwners(m) # {})

\* t's current or last call was made with a handle that held nothing
HandleWasEmpty(t) == hand0[t][hnd[t]] = NULL

\* t is inside lookup
InCall(t) == pc[t] # "idle"

Other(t) == CHOOSE u \in Threads : u # t

\* ------------------------------------------------------------------ claims
\* C1: on a chain built by appending Words[1..k], a lookup(i, empty handle)
\* with 1 <= i <= k that returns, returns the i-th node after the sentinel,
\* never the sentinel, and its payload is Words[i], whatever the other
\* thread is doing.
C1_CorrectElement ==
  \A t \in Threads :
    (outcome[t] = "ok" /\ HandleWasEmpty(t) /\ n0[t] >= 1 /\ n0[t] <= ChainLen)
      => /\ ret[t] = Nth(list, n0[t])
         /\ ret[t] # list
         /\ ret[t] # NULL
         /\ heap[ret[t]].element = Words[n0[t]]

C1_Witness ==
  \E t \in Threads :
    /\ outcome[t] = "ok" /\ n0[t] = 2 /\ ChainLen = 3
    /\ heap[ret[t]].element = "quick"
    /\ pc[Other(t)] = "l189"

\* C2: when lookup has returned, the caller's handle owns the exclusive lock
\* of exactly the returned node, and the call has kept nothing: its local
\* lock objects are gone and every mutex is in the state its remaining
\* owners account for (the predecessor's shared lock has been released).
C2_ReturnHoldsOnlyTarget ==
  \A t \in Threads :
    outcome[t] = "ok"
      => /\ hand[t][hnd[t]] = ret[t]
         /\ rw[ret[t]].w /\ rw[ret[t]].r = 0
         /\ \A h \in Handles \ {hnd[t]} : hand[t][h] = hand0[t][h]
         /\ Held(t) = {}
         /\ LockStateExact

C2_Witness ==
  \E t \in Threads :
    /\ outcome[t] = "ok" /\ n0[t] = 2
    /\ hand[t][hnd[t]] = ret[t]
    /\ rw[Nth(list, 1)].r = 0 /\ ~rw[Nth(list, 1)].w

\* C3: every mutex has at most one exclusive owner and no shared owner, or
\* shared owners only; so two handles never own the same node's lock.
C3_MutualExclusion ==
  \A m \in NodeIds :
    /\ Cardinality(ExclusiveOwners(m)) <= 1
    /\ ExclusiveOwners(m) = {} \/ SharedOwners(m) = {}

C3_Witness ==
  /\ Cardinality(SharedOwners(list)) = 2
  /\ \E m \in NodeIds : \E t \in Threads, h \in Handles : hand[t][h] = m
  /\ \E m \in NodeIds : \E t \in Threads :
        result_lock[t] = m /\ Cardinality(ExclusiveOwners(m)) = 1

\* C4: a lookup call never holds more than two node locks at once, its
\* shared locks and the exclusive lock on the target counted together.
C4_AtMostTwoLocks ==
  \A t \in Threads : Cardinality(LocalSlots(t)) <= 2

C4_Witness ==
  \E t \in Threads :
    /\ n0[t] = 3
    /\ pc[t] = "l208"
    /\ Cardinality(Held(t)) = 2

\* C5: within one lookup call the locks are acquired in chain order, the
\* sentinel first and then each time the successor of the node locked last;
\* while the call goes on a lock is released only when the successor's lock
\* is already held; and from the sentinel's acquisition to the end of the
\* call at least one lock is held.
C5_Step(t) ==
  /\ \A m \in Held(t)' \ Held(t) :
        IF Held(t) = {} THEN m = list
        ELSE \E p \in Held(t) :
               /\ heap[p].next = m
               /\ \A q \in Held(t) \ {p} : heap[q].next = p
  /\ (pc'[t] # "idle")
        => \A p \in Held(t) \ Held(t)' : heap[p].next \in Held(t)
  /\ (outcome'[t] = "ok" /\ pc[t] # "idle")
        => \A p \in Held(t) \ {ret'[t]} : heap[p].next \in Held(t)
  /\ (pc'[t] \notin {"idle", "l140"}) => Held(t)' # {}

\* C5: every step of every thread keeps the hand-over-hand discipline
C5_HandOverHand == [][\A t \in Threads : C5_Step(t)]_vars

C5_Witness ==
  \E t \in Threads :
    /\ pc[t] = "l204" /\ n0[t] = 3
    /\ Held(t) = {Nth(list, 2)}

\* C6: a next link is read only while the reader holds that node's lock:
\* at the read of list->next the call owns the sentinel's shared lock, and
\* at result = result->next it owns the shared lock of the node result
\* points to.
C6_ReadsUnderLock ==
  \A t \in Threads :
    /\ pc[t] = "l141" => (list \in HeldShared(t) /\ rw[list].r >= 1)
    /\ pc[t] = "l189" => (result[t] \in HeldShared(t) /\ rw[result[t]].r >= 1)

C6_Witness ==
  \E t \in Threads :
    /\ pc[t] = "l189" /\ result[t] = Nth(list, 2)
    /\ pc[Other(t)] = "l141"

\* t's last call has ended and the caller has not acted since
Finished(t) == outcome[t] \in {"ok", "error"}

\* at the call, t owned no mutex through any handle
NoHandleHeldAtCall(t) == \A h \in Handles : hand0[t][h] = NULL

\* C7 as stated: on a non-empty chain, with a handle that holds nothing,
\* lookup(0) fails with "invalid argument" and lookup(n), n > k, fails with
\* "list too short".
C7_Original ==
  \A t \in Threads :
    (Finished(t) /\ ChainLen >= 1 /\ HandleWasEmpty(t))
      => /\ n0[t] = 0 => (outcome[t] = "error" /\ exc[t] = ErrInvalid)
         /\ n0[t] > ChainLen => (outcome[t] = "error" /\ exc[t] = ErrShort)

\* C7 (amended): on a non-empty chain, with a handle that holds nothing,
\* lookup(0) fails with "invalid argument"; lookup(n), n > k, never returns
\* a node, and it fails with "list too short" when the calling thread owns
\* no node's lock through another handle; when it owns one, the walk reaches
\* that mutex and the only way the call ends is std::system_error.
C7_Bounds ==
  \A t \in Threads :
    (Finished(t) /\ ChainLen >= 1 /\ HandleWasEmpty(t))
      => /\ n0[t] = 0 => (outcome[t] = "error" /\ exc[t] = ErrInvalid)
         /\ n0[t] > ChainLen =>
              /\ outcome[t] = "error"
              /\ ret[t] = NULL
              /\ exc[t] = IF NoHandleHeldAtCall(t) THEN ErrShort ELSE ErrDeadlock

C7_Witness ==
  \E t \in Threads :
    /\ ChainLen = 2
    /\ outcome[t] = "error" /\ n0[t] = 3 /\ exc[t] = ErrShort
    /\ outcome[Other(t)] = "error" /\ n0[Other(t)] = 0
    /\ HandleWasEmpty(Other(t)) /\ exc[Other(t)] = ErrInvalid

C9_FailureReleasesAll ==
  \A t \in Threads :
    outcome[t] = "error"
      => /\ Held(t) = {}
         /\ hand[t] = hand0[t]
         /\ LockStateExact

C9_Witness ==
  \E t \in Threads :
    /\ outcome[t] = "error" /\ exc[t] = ErrShort /\ n0[t] = 4 /\ ChainLen = 3
    /\ outcome[Other(t)] = "error" /\ exc[Other(t)] = ErrInvalid
    /\ ~HandleWasEmpty(Other(t))
    /\ \A m \in NodeIds : rw[m].r = 0

C9_WitnessEmpty ==
  \E t \in Threads :
    outcome[t] = "error" /\ exc[t] = ErrEmpty /\ rw[list].r = 0

\* the nodes at positions 1..i of the chain
UpTo(i) == {Nth(list, j) : j \in 1..i} \ {NULL}

\* t has just called lookup(i, empty handle) with a valid i
Calls(t, i) ==
  /\ pc[t] = "l140" /\ n0[t] = i /\ i <= ChainLen /\ HandleWasEmpty(t)

\* t's call lookup(i) has returned node i
Succeeded(t, i) == outcome[t] = "ok" /\ n0[t] = i /\ ret[t] = Nth(list, i)

\* no thread other than t keeps a lock on a node of 1..i for ever
OthersLetGo(t, i) ==
  \A u \in Threads \ {t} : \A j \in 1..i :
    []<>(phase = "run" => Nth(list, j) \notin Owned(u))

\* C10 as stated: under fair scheduling, if no other thread keeps a lock on
\* nodes 1..i for ever, every lookup(i) with an empty handle, made while
\* the caller does not hold node i's lock (it was released), succeeds.
C10_Original ==
  \A t \in Threads : \A i \in 1..MaxLen :
    OthersLetGo(t, i)
      => ((Calls(t, i) /\ Nth(list, i) \notin Owned(t)) ~> Succeeded(t, i))

\* C10 (amended): under fair scheduling, if no other thread keeps a lock on
\* nodes 1..i for ever and the calling thread itself owns no lock on nodes
\* 1..i through another handle, every lookup(i) with an empty handle
\* succeeds: a lock that was held and released does not block it.
C10_LockRelease ==
  \A t \in Threads : \A i \in 1..MaxLen :
    OthersLetGo(t, i)
      => ((Calls(t, i) /\ Owned(t) \cap UpTo(i) = {}) ~> Succeeded(t, i))

C10_Witness ==
  \E t \in Threads :
    /\ Succeeded(t, 2) /\ hand[t][hnd[t]] = Nth(list, 2)
    /\ outcome[Other(t)] = "released" /\ ret[Other(t)] = Nth(list, 2)

\* t is inside lookup, waiting for a mutex that another owner keeps it from
Blocked(t) ==
  \/ pc[t] = "l140" /\ ~CanLockShared(list)
  \/ pc[t] = "l174" /\ result[t] \notin Owned(t) /\ ~CanLockShared(result[t])
  \/ pc[t] = "l204" /\ result[t] \notin Owned(t) /\ ~CanLock(result[t])

\* t's call is under way, or has returned and t has not acted since
Active(t) == InCall(t) \/ outcome[t] = "ok"

\* t looks up index i and u index j, two positions apart or more, both with
\* an empty handle and nothing else held
Disjoint(t, u, i, j) ==
  /\ t # u /\ i >= 1 /\ j >= i + 2
  /\ n0[t] = i /\ Active(t) /\ NoHandleHeldAtCall(t)
  /\ n0[u] = j /\ Active(u) /\ NoHandleHeldAtCall(u)
  /\ j <= ChainLen

\* C11 as stated: with two lookups for non-adjacent indices, neither call
\* ever waits for the other after the sentinel step.
C11_Original ==
  \A t, u \in Threads : \A i, j \in 1..MaxLen :
    Disjoint(t, u, i, j)
      => /\ Blocked(t) => pc[t] = "l140"
         /\ Blocked(u) => pc[u] = "l140"

\* C11 (amended): with two lookups for non-adjacent indices i < j on a
\* chain of length >= 3, nobody ever waits at the sentinel; the call for j
\* waits only for the shared lock of node i, and only while the other
\* thread owns node i exclusively (its returned handle included); the call
\* for i waits only for the exclusive lock of node i, and only while the
\* other call, itself not waiting, is passing through node i.
C11_DisjointAccess ==
  \A t, u \in Threads :
    LET i == n0[t]
        j == n0[u]
    IN Disjoint(t, u, i, j)
      => /\ pc[t] = "l140" => ~Blocked(t)
         /\ pc[u] = "l140" => ~Blocked(u)
         /\ Blocked(u) => /\ pc[u] = "l174"
                          /\ result[u] = Nth(list, i)
                          /\ \E o \in ExclusiveOwners(Nth(list, i)) : o[1] = t
         /\ Blocked(t) => /\ pc[t] = "l204"
                          /\ result[t] = Nth(list, i)
                          /\ Nth(list, i) \in HeldShared(u)
                          /\ ~Blocked(u)
         /\ (outcome[t] = "ok" /\ outcome[u] = "ok")
               => /\ hand[t][hnd[t]] = Nth(list, i)
                  /\ hand[u][hnd[u]] = Nth(list, j)

\* both calls have returned and both nodes are held exclusively at once
C11_Witness ==
  \E t, u \in Threads :
    /\ Disjoint(t, u, 1, 3)
    /\ outcome[t] = "ok" /\ outcome[u] = "ok"
    /\ rw[Nth(list, 1)].w /\ rw[Nth(list, 3)].w

\* ------------------------------------------------ callers that never misuse
\* a call made while the caller owns no lock returned by an earlier lookup;
\* the index is arbitrary
CallClean(t, k, h) ==
  /\ \A x \in Handles : hand[t][x] = NULL
  /\ Call(t, k, h)

\* without such calls no thread ever re-locks a mutex it owns
CleanNext ==
  \/ populate_list
  \/ populated
  \/ \E t \in Threads, k \in Indices, h \in Handles : CallClean(t, k, h)
  \/ \E t \in Threads : LockSentinel(t)
  \/ \E t \in Threads : InitResult(t)
  \/ \E t \in Threads : LockNext(t)
  \/ \E t \in Threads : Advance(t)
  \/ \E t \in Threads : EndIteration(t)
  \/ \E t \in Threads : LockResult(t)
  \/ \E t \in Threads : Return(t)
  \/ \E t \in Threads, h \in Handles : Release(t, h)

\* fair lock acquisition, and every returned lock is eventually released
CleanFairness ==
  /\ \A t \in Threads : SF_vars(Step(t))
  /\ \A t \in Threads, h \in Handles : WF_vars(Release(t, h))

CleanSpec == Init /\ [][CleanNext]_vars /\ CleanFairness

\* some thread can take a step of lookup or release a lock it was returned
Progress ==
  \/ \E t \in Threads : InCall(t) /\ ~Blocked(t)
  \/ \E t \in Threads, h \in Handles : pc[t] = "idle" /\ hand[t][h] # NULL

\* C12: when no thread calls lookup while it holds a lock returned by an
\* earlier lookup, and returned locks are eventually released, then under
\* fair lock acquisition no state is reached in which a call is under way
\* and nothing can move, no thread ever re-locks a mutex it owns, and every
\* lookup call, whatever its index, eventually returns or fails.
C12_NoDeadlock ==
  /\ []((\E t \in Threads : InCall(t)) => Progress)
  /\ [](\A t \in Threads :
          pc[t] \in {"l174", "l204"} => result[t] \notin Owned(t))
  /\ \A t \in Threads : InCall(t) ~> Finished(t)

\* a call waits for the exclusive lock of its target, which the other
\* thread holds through a returned handle
C12_Witness ==
  \E t \in Threads, h \in Handles :
    /\ pc[t] = "l204" /\ Blocked(t)
    /\ hand[Other(t)][h] = result[t]
    /\ pc[Other(t)] = "idle"

\* ------------------------------------------------------------- dynamic map
\* unsigned int arithmetic on 32-bit patterns read in two's complement:
\* ++ wraps from 4294967295 (-1) to 0, and from 2147483647 to 2147483648
UIntInc(x) == IF x = 2147483647 THEN -2147483647 - 1 ELSE x + 1

\* a < b as unsigned ints
ULess(a, b) == IF (a >= 0) = (b >= 0) THEN a < b ELSE a >= 0

\* faulty variant: lock() reports every weak_ptr expired
weak_lock_expired(w) == NULL

\* weak_ptr::lock: the object if it is still alive, else nullptr
weak_lock(w) == IF w # NULL /\ objects[w].use_count > 0 THEN w ELSE NULL

\* serial_no::serial_no: this_num(number++), the value number has afterwards
serial_no_next == UIntInc(serial_no_number)

\* one more, or one fewer, shared_ptr owns object o (nullptr owns nothing)
AddRef(objs, o) ==
  IF o = NULL THEN objs ELSE [objs EXCEPT ![o].use_count = @ + 1]
DropRef(objs, o) ==
  IF o = NULL THEN objs ELSE [objs EXCEPT ![o].use_count = @ - 1]

\* the objects that live references obtained from lookup(s) refer to
RefsFrom(s) == {refs[c].obj : c \in {x \in Slots : refs[x].from = s}} \ {NULL}

\* the client runs  slot c = m.lookup(s)
dynamic_map_lookup(s, c) ==
  LET tentative == IF s \in DOMAIN map THEN map[s] ELSE NULL
      locked == weak_lock(tentative)
      new == Cardinality(DOMAIN objects) + 1
      made == objects @@ (new :> [this_num |-> serial_no_number,
                                  use_count |-> 1])
  IN /\ locked = NULL => new <= MaxAlloc
     /\ IF locked = NULL
          THEN /\ serial_no_number' = serial_no_next
               /\ objects' = DropRef(made, refs[c].obj)
               /\ map' = [x \in DOMAIN map \cup {s} |->
                            IF x = s THEN new ELSE map[x]]
               /\ refs' = [refs EXCEPT ![c] = [obj |-> new, from |-> s]]
               /\ last' = [op |-> "lookup", s |-> s, obj |-> new,
                           had |-> RefsFrom(s),
                           allocated |-> Cardinality(DOMAIN objects),
                           number |-> serial_no_number]
          ELSE /\ objects' = DropRef(AddRef(objects, locked), refs[c].obj)
               /\ refs' = [refs EXCEPT ![c] = [obj |-> locked, from |-> s]]
               /\ last' = [op |-> "lookup", s |-> s, obj |-> locked,
                           had |-> RefsFrom(s),
                           allocated |-> Cardinality(DOMAIN objects),
                           number |-> serial_no_number]
               /\ UNCHANGED <<serial_no_number, map>>
     /\ UNCHANGED hohVars

\* the client copies a shared_ptr: slot c = slot a
shared_ptr_copy(a, c) ==
  /\ a # c
  /\ refs[a].obj # NULL
  /\ objects' = DropRef(AddRef(objects, refs[a].obj), refs[c].obj)
  /\ refs' = [refs EXCEPT ![c] = refs[a]]
  /\ last' = [NoOp EXCEPT !.op = "copy"]
  /\ UNCHANGED <<serial_no_number, map, hohVars>>

\* the client drops a reference: slot c = nullptr, or c goes out of scope;
\* the object is destroyed with its last reference
shared_ptr_reset(c) ==
  /\ refs[c].obj # NULL
  /\ objects' = DropRef(objects, refs[c].obj)
  /\ refs' = [refs EXCEPT ![c] = NoRef]
  /\ last' = [NoOp EXCEPT !.op = "drop"]
  /\ UNCHANGED <<serial_no_number, map, hohVars>>

\* the map after a long run: 4294967294 serial numbers were issued for "P"
\* and every reference dropped, so serial_no::number is 4294967295
InitMapLate ==
  /\ serial_no_number = -1
  /\ objects = (1 :> [this_num |-> -2, use_count |-> 0])
  /\ map = ("P" :> 1)
  /\ refs = [c \in Slots |-> NoRef]
  /\ last = NoOp

DynInit == InitList /\ (InitMap \/ InitMapLate)

DynNext ==
  \/ \E s \in Strings, c \in Slots : dynamic_map_lookup(s, c)
  \/ \E a \in Slots, c \in Slots : shared_ptr_copy(a, c)
  \/ \E c \in Slots : shared_ptr_reset(c)

DynSpec == DynInit /\ [][DynNext]_vars

\* the serial_no objects that are alive
Live == {o \in DOMAIN objects : objects[o].use_count > 0}

\* the client's last operation was a lookup
LookedUp == last.op = "lookup"


\* C13: whenever lookup(s) is made while a reference obtained from an
\* earlier lookup(s), or a copy of one, is still alive, it returns the very
\* object those references refer to (hence the same serial number), that
\* object is alive, and no serial_no was allocated: the number of objects
\* and serial_no::number are what they were before the call.
C13_SameWhileLive ==
  (LookedUp /\ last.had # {})
    => /\ last.had = {last.obj}
       /\ last.obj \in Live
       /\ refs \in [Slots -> {NoRef} \cup
                     [obj : DOMAIN objects, from : Strings]]
       /\ Cardinality(DOMAIN objects) = last.allocated
       /\ serial_no_number = last.number

\* a lookup returned the object of a live reference although other strings
\* were given newer serial numbers in between
C13_Witness ==
  /\ LookedUp /\ last.had # {}
  /\ \E o \in DOMAIN objects : ULess(objects[last.obj].this_num,
                                     objects[o].this_num)
  /\ objects[last.obj].use_count >= 2

Solo(t) == \A u \in Threads \ {t} : pc[u] = "idle" /\ Owned(u) = {}

\* t's current or last call was lookup(i) with an empty handle, made while
\* its other handle held node j's exclusive lock and nobody else was active
Nested(t, i, j) ==
  /\ n0[t] = i /\ i >= 1 /\ j >= 1
  /\ Active(t) \/ Finished(t)
  /\ HandleWasEmpty(t)
  /\ Solo(t)
  /\ \E h \in Handles \ {hnd[t]} :
       hand0[t][h] # NULL /\ hand0[t][h] = Nth(list, j)
  /\ i <= ChainLen

\* main's thread, the only one that runs
MainThread == "A"

\* hoh.cpp as main runs it: one thread, its two handles
SoloNext ==
  \/ populate_list
  \/ populated
  \/ \E k \in Indices, h \in Handles : Call(MainThread, k, h)
  \/ LockSentinel(MainThread)
  \/ InitResult(MainThread)
  \/ LockNext(MainThread)
  \/ Advance(MainThread)
  \/ EndIteration(MainThread)
  \/ LockResult(MainThread)
  \/ LockOwned(MainThread)
  \/ Return(MainThread)
  \/ \E h \in Handles : Release(MainThread, h)

SoloSpec == Init /\ [][SoloNext]_vars

\* C15 as stated: a lone thread that holds node j and calls lookup(i) with
\* its second handle never gets a result when 1 <= i <= j.
C15_Original ==
  \A t \in Threads : \A i, j \in 1..MaxLen :
    (Nested(t, i, j) /\ i <= j) => outcome[t] # "ok"

\* C15 (amended): a lone thread that holds node j and calls lookup(i) with
\* its second handle meets its own lock exactly when i >= j. The call then
\* never returns a result and never walks past node j: it arrives at node
\* j (line 174 for i > j, line 204 for i = j) and cannot take any step but
\* the re-locking of the mutex it owns, which blocks for ever or fails with
\* std::system_error. For i < j the call never waits and returns node i.
C15_SelfDeadlock ==
  \A t \in Threads : \A i, j \in 1..MaxLen :
    Nested(t, i, j)
      => IF i < j
           THEN /\ ~Blocked(t)
                /\ pc[t] \in {"l174", "l204"} => result[t] \notin Owned(t)
                /\ Finished(t) => Succeeded(t, i)
           ELSE /\ outcome[t] # "ok"
                /\ Finished(t) => exc[t] = ErrDeadlock /\ Held(t) = {}
                /\ InCall(t) /\ result[t] # NULL => result[t] \in UpTo(j)
                /\ (pc[t] \in {"l174", "l204"} /\ result[t] = Nth(list, j))
                     => /\ pc[t] = (IF i > j THEN "l174" ELSE "l204")
                        /\ ~ENABLED Step(t)
                        /\ ENABLED LockOwned(t)

\* a lone thread holding node 2 has walked to node 2 again and is stuck
C15_Witness ==
  \E t \in Threads :
    /\ Nested(t, 2, 2) /\ pc[t] = "l204"
    /\ result[t] = Nth(list, 2) /\ ~ENABLED Step(t)


\* no mutex is locked in any mode
AllFree == \A m \in NodeIds : ~rw[m].w /\ rw[m].r = 0

\* C16: with no other thread active, a thread holding node j through one
\* handle that calls lookup(i), i < j, with its other, empty handle never
\* waits; when the call has returned the thread's two handles own nodes i
\* and j exclusively, these are the only locked mutexes and no shared lock
\* is left. Once the thread, still alone, owns no handle any more, every
\* mutex is free, and a lookup(m) it then makes, 1 <= m <= k, never waits
\* and returns node m.
C16_NestedLookup ==
  \A t \in Threads :
    /\ \A i, j \in 1..MaxLen :
         (Nested(t, i, j) /\ i < j)
           => /\ ~Blocked(t)
              /\ Finished(t)
                   => /\ Succeeded(t, i)
                      /\ {hand[t][h] : h \in Handles}
                           = {Nth(list, i), Nth(list, j)}
                      /\ Held(t) = {}
                      /\ \A m \in NodeIds :
                           /\ rw[m].r = 0
                           /\ rw[m].w = (m \in {Nth(list, i), Nth(list, j)})
    /\ (Solo(t) /\ pc[t] = "idle" /\ Owned(t) = {}) => AllFree
    /\ (Solo(t) /\ NoHandleHeldAtCall(t) /\ n0[t] \in 1..ChainLen)
         => /\ ~Blocked(t)
            /\ Finished(t) => Succeeded(t, n0[t])

\* main's pattern: holding node 3, the thread has looked up node 1 as well
C16_Witness ==
  \E t \in Threads :
    /\ Nested(t, 1, 3) /\ outcome[t] = "ok"
    /\ rw[Nth(list, 1)].w /\ rw[Nth(list, 3)].w
    /\ ~rw[Nth(list, 2)].w


\* ------------------------------------------------------------ empty chain
\* a verbose_mutex each caller has constructed for itself after the
\* sentinel's (verbose_mutex::number counts them all): not part of the list
own_mutex == [t \in Threads |-> IF t = "A" THEN 1 ELSE 2]

\* main has populated nothing; each caller may have locked its own mutex
\* with one of the handles it will pass to lookup
EmptyInit ==
  /\ phase = "run"
  /\ number = 3
  /\ heap = [i \in {list} |-> [element |-> EmptyElt, next |-> NULL]]
  /\ hand \in {f \in [Threads -> [Handles -> {NULL, 1, 2}]] :
                 \A t \in Threads :
                   /\ \A h \in Handles : f[t][h] \in {NULL, own_mutex[t]}
                   /\ \E h \in Handles : f[t][h] = NULL}
  /\ rw = [m \in 0..2 |->
             [w |-> \E t \in Threads, h \in Handles : hand[t][h] = m,
              r |-> 0]]
  /\ pc = [t \in Threads |-> "idle"]
  /\ n = [t \in Threads |-> 0]
  /\ hnd = [t \in Threads |-> 1]
  /\ read_lock = [t \in Threads |-> NULL]
  /\ next_lock = [t \in Threads |-> NULL]
  /\ result_lock = [t \in Threads |-> NULL]
  /\ result = [t \in Threads |-> NULL]
  /\ exc = [t \in Threads |-> "none"]
  /\ outcome = [t \in Threads |-> "none"]
  /\ ret = [t \in Threads |-> NULL]
  /\ n0 = [t \in Threads |-> 0]
  /\ hand0 = [t \in Threads |-> [h \in Handles |-> NULL]]
  /\ InitMap

\* on an empty chain lookup never gets past line 147
EmptyNext ==
  \/ \E t \in Threads, k \in Indices, h \in Handles : Call(t, k, h)
  \/ \E t \in Threads : LockSentinel(t)
  \/ \E t \in Threads : InitResult(t)
  \/ \E t \in Threads, h \in Handles : Release(t, h)

EmptySpec == EmptyInit /\ [][EmptyNext]_vars

\* t's lookup throws in this step
Throws(t) == outcome[t] # "error" /\ outcome'[t] = "error"

\* C17: on an empty chain every lookup that ends has failed with "list is
\* empty", whatever n is and whether or not the handle passed in owns a
\* lock; the call reaches the two checks only while its read_lock holds the
\* sentinel's mutex in shared mode, and it is from there that it throws.
C17_EmptyFirst ==
  /\ [](\A t \in Threads :
          /\ (ChainLen = 0 /\ Finished(t))
               => outcome[t] = "error" /\ exc[t] = ErrEmpty
          /\ pc[t] = "l141" => read_lock[t] = list /\ rw[list].r >= 1)
  /\ [][\A t \in Threads :
          Throws(t) => /\ pc[t] = "l141"
                       /\ read_lock[t] = list /\ rw[list].r >= 1
                       /\ exc'[t] = ErrEmpty]_vars

\* a lookup(0) with a handle that owns a lock has failed with "list is
\* empty" while the other thread holds the sentinel's shared lock
C17_Witness ==
  \E t \in Threads :
    /\ ChainLen = 0 /\ outcome[t] = "error" /\ exc[t] = ErrEmpty
    /\ n0[t] = 0 /\ hand0[t][hnd[t]] = own_mutex[t]
    /\ pc[Other(t)] = "l141"


\* ------------------------------------------------ reach of a held result
\* the nodes of the chain by position (NULL past the end)
Chain == [k \in 1..MaxLen |-> Nth(list, k)]

\* some handle, of any thread, owns the exclusive lock of node j of chain c
HeldByHandleOn(c, j) ==
  /\ c[j] # NULL
  /\ \E u \in Threads, h \in Handles : hand[u][h] = c[j]

\* a call holding the mutexes held has locked neither node j of chain c nor
\* any node after it
BeforeOn(c, held, j) == \A k \in j..MaxLen : c[k] \notin held

HeldByHandle(j) == HeldByHandleOn(Chain, j)

\* t's call has not locked node j or any node after it
Before(t, j) == InCall(t) /\ BeforeOn(Chain, Held(t), j)

\* the mutexes t's call acquires in this step
Acquired(t) == Held(t)' \ Held(t)

\* t's lookup returns in this step
Returns(t) == outcome[t] # "ok" /\ outcome'[t] = "ok"

\* C18 as stated: while a handle holds node j's exclusive lock, no
\* lookup(i) with i >= j returns.
C18_Original ==
  [][\A t \in Threads :
       Returns(t) => \A j \in 1..MaxLen : n0[t] >= j => ~HeldByHandle(j)]_vars

\* C18 (amended): while a handle holds node j's exclusive lock, a
\* lookup(i) with i >= j that has not yet locked node j neither returns
\* nor acquires the mutex of node j or of a later node; a call that locked
\* node j earlier and is past it is not held up. A call for i holds no mutex but the sentinel's and those
\* of nodes 1..i, and when it waits, it waits for one of nodes 1..i: a lock
\* held on a later node j > i never keeps it from acquiring a lock.
C18_BlockingReach ==
  /\ [][\A t \in Threads :
          (InCall(t) /\ (Returns(t) \/ Acquired(t) # {})) =>
            LET c == Chain
            IN \A j \in 1..MaxLen :
                 (n0[t] >= j /\ HeldByHandleOn(c, j)
                    /\ BeforeOn(c, Held(t), j))
                   => /\ ~Returns(t)
                      /\ BeforeOn(c, Acquired(t), j)]_vars
  /\ [](\A t \in Threads :
          /\ Held(t) \subseteq {list} \cup UpTo(n0[t])
          /\ Blocked(t) => result[t] \in UpTo(n0[t]))

\* a lookup(3) waits at node 2, whose exclusive lock the other thread's
\* handle holds, while node 3 is free
C18_Witness ==
  \E t \in Threads :
    /\ ChainLen = 3 /\ HeldByHandle(2) /\ n0[t] = 3 /\ Before(t, 2)
    /\ pc[t] = "l174" /\ result[t] = Nth(list, 2) /\ Blocked(t)
    /\ Nth(list, 2) \notin Owned(t)
    /\ ~rw[Nth(list, 3)].w


\* ------------------------------------------------- cross-thread deadlock
\* a holds node j through a handle and its lookup(j-1) is at line 204, about
\* to lock node j-1; b's lookup(j) holds node j-1 shared and is at line 204,
\* about to lock node j
Deadlock(a, b, j) ==
  /\ a # b /\ j >= 2
  /\ pc[a] = "l204" /\ n0[a] = j - 1
  /\ pc[b] = "l204" /\ n0[b] = j
  /\ j <= ChainLen
  /\ \E h \in Handles \ {hnd[a]} : hand[a][h] = Nth(list, j)
  /\ result[a] = Nth(list, j - 1)
  /\ result[b] = Nth(list, j)
  /\ read_lock[b] = Nth(list, j - 1)
  /\ \A h \in Handles : hand[b][h] = NULL

\* C19: in the state where A, holding node j, waits at line 204 for node
\* j-1 and B, holding node j-1 shared, waits at line 204 for node j, both
\* calls are blocked, neither by a mutex its own thread owns, and the
\* program has no step left: neither call ever completes.
C19_CrossDeadlock ==
  \A a, b \in Threads :
    LET j == n0[b]
    IN Deadlock(a, b, j)
      => /\ Blocked(a) /\ Blocked(b)
         /\ ~ENABLED LockOwned(a) /\ ~ENABLED LockOwned(b)
         /\ ExclusiveOwners(Nth(list, j)) \subseteq {a} \X Handles
         /\ Nth(list, j - 1) \in HeldShared(b)
         /\ ~ENABLED Next

\* the deadlock is reached, at the end of the chain
C19_Witness ==
  \E a, b \in Threads : Deadlock(a, b, 3)


\* C20: the sentinel's mutex is never locked exclusively: no result_lock and
\* no handle ever owns it, its owners are read_locks and next_locks only,
\* and a call at line 140 can always take its shared lock at once, whatever
\* the other threads hold.
C20_SentinelSharedOnly ==
  /\ ~rw[list].w
  /\ ExclusiveOwners(list) = {}
  /\ \A t \in Threads :
       /\ result[t] # list
       /\ pc[t] = "l140" => CanLockShared(list) /\ ~Blocked(t)

\* a call is about to lock the sentinel while the other thread keeps the
\* sentinel's shared lock and its handle holds a node
C20_Witness ==
  \E t \in Threads, h \in Handles :
    /\ pc[t] = "l140"
    /\ read_lock[Other(t)] = list /\ rw[list].r = 1
    /\ hand[Other(t)][h] # NULL

====
